---- MODULE Spec2Model ----
(***************************************************************************)
(* Model of the Bittbridge miner_model plugin discovery:                   *)
(*   miner_model/utils/model_loader.py   load_student_model,               *)
(*                                       list_available_models             *)
(*   miner_model/student_models/my_model.py   module-level discovery of    *)
(*                                       the .h5 model and the .csv data   *)
(* A path is the sequence of its components; a name is a string whose      *)
(* characters Chars gives, so that endswith and the substring test of the  *)
(* code are computed on characters.                                        *)
(***************************************************************************)
EXTENDS Integers, Sequences, FiniteSets, TLC

VARIABLES
    student_models_kind, \* "absent", "dir" or "file": what student_models is
    entries,             \* names os.listdir(student_models_dir) returns
    artifacts,           \* the other files under miner_model_dir (paths)
    sys_path,            \* sys.path, as the set of directories on it
    sys_modules,         \* sys.modules: module name -> module object id
    nextId,              \* id of the next module object created
    call,                \* the function running: "none", "load", "list"
    pc,                  \* position in the running function
    lsm_model_files,     \* load_student_model: model_files
    model_file,          \* load_student_model: model_file
    module,              \* load_student_model: module
    exc,                 \* the exception in flight
    logged,              \* the last bt.logging.error / success record
    result,              \* the value returned (or the exception that escaped)
    model_files,         \* my_model: model_files
    model_path,          \* my_model: model_path
    model,               \* my_model: model
    csv_files,           \* my_model: csv_files
    data_path,           \* my_model: data_path
    data,                \* my_model: data
    last                 \* summary of the previous invocation on this tree

fsvars   == <<student_models_kind, entries, artifacts>>
procvars == <<sys_path, sys_modules, nextId>>
lsmvars  == <<lsm_model_files, model_file, module, exc, logged, result>>
myvars   == <<model_files, model_path, model, csv_files, data_path, data>>
vars     == <<fsvars, procvars, call, pc, lsmvars, myvars, last>>

None == "None"

\* Number of module objects one process creates in the model.
MaxLoads == 3

-----------------------------------------------------------------------------
(* Strings *)

Chars(s) ==
    CASE s = "LSTM_outside_example" -> <<"L","S","T","M","_","o","u","t","s","i","d","e","_","e","x","a","m","p","l","e">>
      [] s = "my_LSTM_outside_example_v2" -> <<"m","y","_","L","S","T","M","_","o","u","t","s","i","d","e","_","e","x","a","m","p","l","e","_","v","2">>
      [] s = "nested" -> <<"n","e","s","t","e","d">>
      [] s = "student_models" -> <<"s","t","u","d","e","n","t","_","m","o","d","e","l","s">>
      [] s = "repo" -> <<"r","e","p","o">>
      [] s = "miner_model" -> <<"m","i","n","e","r","_","m","o","d","e","l">>
      [] s = "models" -> <<"m","o","d","e","l","s">>
      [] s = "modelC.h5" -> <<"m","o","d","e","l","C",".","h","5">>
      [] s = "modelA.h5" -> <<"m","o","d","e","l","A",".","h","5">>
      [] s = "modelB.h5" -> <<"m","o","d","e","l","B",".","h","5">>
      [] s = "data.csv" -> <<"d","a","t","a",".","c","s","v">>
      [] s = "lstm_model.h5" -> <<"l","s","t","m","_","m","o","d","e","l",".","h","5">>
      [] s = "__init__.py" -> <<"_","_","i","n","i","t","_","_",".","p","y">>
      [] s = "helpers.py" -> <<"h","e","l","p","e","r","s",".","p","y">>
      [] s = "my_model.py" -> <<"m","y","_","m","o","d","e","l",".","p","y">>
      [] s = "b_model.py" -> <<"b","_","m","o","d","e","l",".","p","y">>
      [] s = "my_model.pyc" -> <<"m","y","_","m","o","d","e","l",".","p","y","c">>
      [] s = ".h5" -> <<".","h","5">>
      [] s = ".csv" -> <<".","c","s","v">>
      [] s = ".py" -> <<".","p","y">>

Slash == <<"/">>

\* str.endswith
EndsWith(s, suffix) ==
    /\ Len(s) >= Len(suffix)
    /\ SubSeq(s, Len(s) - Len(suffix) + 1, Len(s)) = suffix

\* the substring test  sub in s
Contains(sub, s) ==
    \E i \in 1..(Len(s) - Len(sub) + 1) : SubSeq(s, i, i + Len(sub) - 1) = sub

\* the characters of an absolute path
RECURSIVE PathChars(_)
PathChars(p) ==
    IF p = <<>> THEN <<>>
    ELSE PathChars(SubSeq(p, 1, Len(p) - 1)) \o Slash \o Chars(p[Len(p)])

\* os.path.join(root, file)
Join(root, file) == Append(root, file)

\* os.path.dirname
Dirname(p) == SubSeq(p, 1, Len(p) - 1)

Basename(p) == p[Len(p)]

IsPrefix(d, p) == Len(d) <= Len(p) /\ SubSeq(p, 1, Len(d)) = d

Perms(S) ==
    {p \in [1..Cardinality(S) -> S] : \A i, j \in 1..Cardinality(S) : p[i] = p[j] => i = j}

RECURSIVE Flatten(_)
Flatten(ss) == IF ss = <<>> THEN <<>> ELSE Head(ss) \o Flatten(Tail(ss))

Range(f) == {f[x] : x \in DOMAIN f}

-----------------------------------------------------------------------------
(* The file system *)

miner_model_dir == <<"repo", "miner_model">>

student_models_dir == Join(miner_model_dir, "student_models")

\* the files a user may put under miner_model_dir
ArtifactUniverse ==
    { Join(miner_model_dir, "modelA.h5"),
      Join(miner_model_dir, "modelB.h5"),
      Join(miner_model_dir, "data.csv"),
      Join(Join(miner_model_dir, "models"), "modelC.h5"),
      Join(Join(miner_model_dir, "LSTM_outside_example"), "lstm_model.h5"),
      Join(Join(Join(miner_model_dir, "my_LSTM_outside_example_v2"), "nested"), "data.csv") }

\* the names that may appear in student_models/
EntryUniverse == {"__init__.py", "helpers.py", "my_model.py", "b_model.py", "my_model.pyc"}

\* files load_model cannot read
Corrupt == { Join(miner_model_dir, "modelB.h5") }

AllFiles ==
    artifacts
    \cup {Join(student_models_dir, e) : e \in entries}
    \cup (IF student_models_kind = "file" THEN {student_models_dir} ELSE {})

\* the non-directory entries of directory root
FilesIn(root) == {Basename(f) : f \in {g \in AllFiles : Dirname(g) = root}}

\* the sub-directories of directory root
SubDirs(root) ==
    {SubSeq(f, 1, Len(root) + 1) :
        f \in {g \in AllFiles : IsPrefix(root, g) /\ Len(g) > Len(root) + 1}}
    \cup (IF root = miner_model_dir /\ student_models_kind = "dir"
          THEN {student_models_dir} ELSE {})

-----------------------------------------------------------------------------
(* my_model.py: the scan for artifacts *)

\* (variant) the directory's own name is compared with the marker
SkipByName(root) == Basename(root) = "LSTM_outside_example"

\* (variant) no directory is skipped
SkipNever(root) == FALSE

\* if 'LSTM_outside_example' in root: continue
Skip(root) == Contains(Chars("LSTM_outside_example"), PathChars(root))

\* The lists the loop over os.walk(root) can build for one suffix: os.walk
\* yields root first and then each sub-directory's walk, the files of a
\* directory and its sub-directories in the order the OS enumerates them.
RECURSIVE Walk(_, _)
Walk(root, suffix) ==
    LET own   == IF Skip(root) THEN {}
                 ELSE {f \in FilesIn(root) : EndsWith(Chars(f), Chars(suffix))}
        subs  == SubDirs(root)
        below == [d \in subs |-> Walk(d, suffix)]
        picks == {c \in [subs -> UNION Range(below)] : \A d \in subs : c[d] \in below[d]}
    IN  { [i \in 1..Cardinality(own) |-> Join(root, p[i])]
            \o Flatten([i \in 1..Cardinality(subs) |-> c[q[i]]])
          : p \in Perms(own), q \in Perms(subs), c \in picks }

-----------------------------------------------------------------------------
(* Values *)

NoPath    == <<>>
NoExc     == [type |-> "None", what |-> "", path |-> NoPath]
NoLog     == [level |-> "None", msg |-> "", file |-> None, exc |-> NoExc]
NoModule  == [id |-> 0, name |-> <<>>, package |-> <<>>, attrs |-> {}]
NoSpec    == [name |-> <<>>, origin |-> NoPath, loader |-> None]
Pending   == [kind |-> "pending", wraps |-> 0, value |-> <<>>, exc |-> NoExc]
NoLast    == [valid |-> FALSE, model_file |-> None, model_path |-> NoPath,
              data_path |-> NoPath, outcome |-> "None", id |-> 0]

\* return None
ReturnNone == [kind |-> "None", wraps |-> 0, value |-> <<>>, exc |-> NoExc]

\* an exception that leaves the function
Raised(e) == [kind |-> "raised", wraps |-> 0, value |-> <<>>, exc |-> e]

\* FunctionBasedModel(module.predict)
FunctionBasedModel(m) == [kind |-> "adapter", wraps |-> m.id, value |-> <<>>, exc |-> NoExc]

\* the list list_available_models returns
ReturnList(l) == [kind |-> "list", wraps |-> 0, value |-> l, exc |-> NoExc]

\* bt.logging.error(...)
LogError(msg, file, e) == [level |-> "error", msg |-> msg, file |-> file, exc |-> e]

\* bt.logging.success(...)
LogSuccess(file) == [level |-> "success", msg |-> "loaded", file |-> file, exc |-> NoExc]

\* (variant) the message names current_dir instead of miner_model_dir
FileNotFoundErrorInCurrentDir(suffix, dir) ==
    [type |-> "FileNotFoundError", what |-> suffix, path |-> Append(dir, "student_models")]

\* raise FileNotFoundError(f"No {kind} ... files found in {miner_model_dir} ...")
FileNotFoundError(suffix, dir) == [type |-> "FileNotFoundError", what |-> suffix, path |-> dir]

\* what os.listdir raises on a path that is not a directory
NotADirectoryError(dir) == [type |-> "NotADirectoryError", what |-> "listdir", path |-> dir]

\* what  from .helpers import ...  raises when helpers cannot be found
ModuleNotFoundError == [type |-> "ModuleNotFoundError", what |-> "helpers", path |-> NoPath]

\* what load_model raises on a file it cannot read
LoadError(path) == [type |-> "OSError", what |-> "load_model", path |-> path]

-----------------------------------------------------------------------------
(* model_loader.py: pure parts *)

\* (variant) helpers.py is not excluded
excluded_init_only == {"__init__.py"}

\* excluded_files = ['__init__.py', 'helpers.py']
excluded_files == {"__init__.py", "helpers.py"}

\* file.endswith('.py') and file not in excluded_files
IsCandidate(file) == EndsWith(Chars(file), Chars(".py")) /\ file \notin excluded_files

\* model_file[:-3]
ModuleName(file) == SubSeq(Chars(file), 1, Len(Chars(file)) - 3)

\* 'miner_model.student_models'
StudentPackage == <<"miner_model", "student_models">>

\* f'miner_model.student_models.{module_name}'
QualName(module_name) == Append(StudentPackage, module_name)

\* the name  from .helpers import ...  resolves to
HelpersModule == QualName(ModuleName("helpers.py"))

\* the object a regular import of helpers registers
HelpersId == 0 - 1

\* the object another importer registered under my_model's name
ForeignId == 0 - 2

\* importlib.util.spec_from_file_location(name, file_path)
SpecFromFileLocation(name, file_path) ==
    IF EndsWith(Chars(Basename(file_path)), Chars(".py"))
    THEN [name |-> name, origin |-> file_path, loader |-> "SourceFileLoader"]
    ELSE NoSpec

\* module = importlib.util.module_from_spec(spec); module.__package__ = ...;
\* module.__name__ = ...
ModuleFromSpec(spec, id, module_name) ==
    [id |-> id, name |-> QualName(module_name), package |-> StudentPackage, attrs |-> {}]

\* (variant) the check for the attribute is not made
HasAttrAny(m, name) == TRUE

\* hasattr(module, name)
HasAttr(m, name) == name \in m.attrs

\* model_files[0]
First(l) == l[1]

-----------------------------------------------------------------------------
(* Initial state: the repository as checked out, in a fresh process *)

Init ==
    /\ student_models_kind = "dir"
    /\ entries = {"__init__.py", "helpers.py", "my_model.py"}
    /\ artifacts = {Join(Join(miner_model_dir, "LSTM_outside_example"), "lstm_model.h5")}
    /\ sys_path = {}
    /\ sys_modules \in {<<>>, QualName(ModuleName("my_model.py")) :> ForeignId}
    /\ nextId = 1
    /\ call = "none"
    /\ pc = "idle"
    /\ lsm_model_files = <<>>
    /\ model_file = None
    /\ module = NoModule
    /\ exc = NoExc
    /\ logged = NoLog
    /\ result = Pending
    /\ model_files = <<>>
    /\ model_path = NoPath
    /\ model = NoPath
    /\ csv_files = <<>>
    /\ data_path = NoPath
    /\ data = NoPath
    /\ last = NoLast

ResetLocals ==
    /\ lsm_model_files' = <<>>
    /\ model_file' = None
    /\ module' = NoModule
    /\ exc' = NoExc
    /\ logged' = NoLog
    /\ result' = Pending
    /\ model_files' = <<>>
    /\ model_path' = NoPath
    /\ model' = NoPath
    /\ csv_files' = <<>>
    /\ data_path' = NoPath
    /\ data' = NoPath

-----------------------------------------------------------------------------
(* The environment: the user edits the tree between calls *)

AddArtifact ==
    /\ pc = "idle"
    /\ \E f \in ArtifactUniverse \ artifacts : artifacts' = artifacts \cup {f}
    /\ last' = [NoLast EXCEPT !.id = last.id]
    /\ UNCHANGED <<student_models_kind, entries, procvars, call, pc, lsmvars, myvars>>

RemoveArtifact ==
    /\ pc = "idle"
    /\ \E f \in artifacts : artifacts' = artifacts \ {f}
    /\ last' = [NoLast EXCEPT !.id = last.id]
    /\ UNCHANGED <<student_models_kind, entries, procvars, call, pc, lsmvars, myvars>>

AddEntry ==
    /\ pc = "idle"
    /\ student_models_kind = "dir"
    /\ \E e \in EntryUniverse \ entries : entries' = entries \cup {e}
    /\ last' = [NoLast EXCEPT !.id = last.id]
    /\ UNCHANGED <<student_models_kind, artifacts, procvars, call, pc, lsmvars, myvars>>

RemoveEntry ==
    /\ pc = "idle"
    /\ \E e \in entries : entries' = entries \ {e}
    /\ last' = [NoLast EXCEPT !.id = last.id]
    /\ UNCHANGED <<student_models_kind, artifacts, procvars, call, pc, lsmvars, myvars>>

\* student_models is removed, created as a directory, or created as a file
ReplaceStudentModels ==
    /\ pc = "idle"
    /\ entries = {}
    /\ \E k \in {"absent", "dir", "file"} \ {student_models_kind} :
          /\ (student_models_kind = "absent" \/ k = "absent")
          /\ student_models_kind' = k
    /\ last' = [NoLast EXCEPT !.id = last.id]
    /\ UNCHANGED <<entries, artifacts, procvars, call, pc, lsmvars, myvars>>

-----------------------------------------------------------------------------
(* model_loader.py: load_student_model *)

\* the caller calls load_student_model()
Invoke ==
    /\ pc = "idle"
    /\ nextId <= MaxLoads
    /\ call' = "load"
    /\ pc' = "L36"
    /\ ResetLocals
    /\ UNCHANGED <<fsvars, procvars, last>>

\* if not os.path.exists(student_models_dir): log, return None
CheckDir ==
    /\ pc = "L36"
    /\ IF student_models_kind = "absent"
       THEN /\ logged' = LogError("Student models directory not found", None, NoExc)
            /\ result' = ReturnNone
            /\ pc' = "done"
       ELSE /\ pc' = "L44"
            /\ UNCHANGED <<logged, result>>
    /\ UNCHANGED <<fsvars, procvars, call, lsm_model_files, model_file, module, exc, myvars, last>>

\* for file in os.listdir(student_models_dir): ...   (outside the try block)
ListDir ==
    /\ pc = "L44"
    /\ IF student_models_kind = "file"
       THEN /\ result' = Raised(NotADirectoryError(student_models_dir))
            /\ pc' = "done"
            /\ UNCHANGED lsm_model_files
       ELSE /\ \E p \in Perms(entries) : lsm_model_files' = SelectSeq(p, IsCandidate)
            /\ pc' = "L48"
            /\ UNCHANGED result
    /\ UNCHANGED <<fsvars, procvars, call, model_file, module, exc, logged, myvars, last>>

\* if not model_files: log, return None
CheckFound ==
    /\ pc = "L48"
    /\ IF lsm_model_files = <<>>
       THEN /\ logged' = LogError("No student model found in student_models/ folder", None, NoExc)
            /\ result' = ReturnNone
            /\ pc' = "done"
       ELSE /\ pc' = "L56"
            /\ UNCHANGED <<logged, result>>
    /\ UNCHANGED <<fsvars, procvars, call, lsm_model_files, model_file, module, exc, myvars, last>>

\* model_file = model_files[0]
SelectModelFile ==
    /\ pc = "L56"
    /\ model_file' = First(lsm_model_files)
    /\ pc' = "L67"
    /\ UNCHANGED <<fsvars, procvars, call, lsm_model_files, module, exc, logged, result, myvars, last>>

\* (variant) the module is also entered into sys.modules under its name
PrepareModuleRegistered ==
    /\ pc = "L67"
    /\ LET module_name == ModuleName(model_file)
           file_path   == Join(student_models_dir, model_file)
           spec        == SpecFromFileLocation(QualName(module_name), file_path)
           parent_dir  == Dirname(student_models_dir)
       IN  IF spec = NoSpec
           THEN /\ logged' = LogError("Could not create spec", model_file, NoExc)
                /\ result' = ReturnNone
                /\ pc' = "done"
                /\ UNCHANGED <<module, nextId, sys_path, sys_modules>>
           ELSE /\ module' = ModuleFromSpec(spec, nextId, module_name)
                /\ nextId' = nextId + 1
                /\ sys_path' = sys_path \cup {parent_dir}
                /\ sys_modules' = [n \in DOMAIN sys_modules \cup {QualName(module_name)} |->
                                      IF n = QualName(module_name) THEN nextId ELSE sys_modules[n]]
                /\ pc' = "L90"
                /\ UNCHANGED <<logged, result>>
    /\ UNCHANGED <<fsvars, call, lsm_model_files, model_file, exc, myvars, last>>

\* spec_from_file_location, module_from_spec, __package__, __name__, sys.path
PrepareModule ==
    /\ pc = "L67"
    /\ LET module_name == ModuleName(model_file)
           file_path   == Join(student_models_dir, model_file)
           spec        == SpecFromFileLocation(QualName(module_name), file_path)
           parent_dir  == Dirname(student_models_dir)
       IN  IF spec = NoSpec
           THEN /\ logged' = LogError("Could not create spec", model_file, NoExc)
                /\ result' = ReturnNone
                /\ pc' = "done"
                /\ UNCHANGED <<module, nextId, sys_path>>
           ELSE /\ module' = ModuleFromSpec(spec, nextId, module_name)
                /\ nextId' = nextId + 1
                /\ sys_path' = sys_path \cup {parent_dir}
                /\ pc' = "L90"
                /\ UNCHANGED <<logged, result>>
    /\ UNCHANGED <<fsvars, sys_modules, call, lsm_model_files, model_file, exc, myvars, last>>

\* spec.loader.exec_module(module), for my_model.py: its imports
\*   from .helpers import predict_1hour_ahead, prepare_dataframe
ExecMyModel ==
    /\ pc = "L90"
    /\ model_file = "my_model.py"
    /\ IF HelpersModule \in DOMAIN sys_modules
       THEN /\ pc' = "M29"
            /\ UNCHANGED <<sys_modules, exc>>
       ELSE IF "helpers.py" \in entries
       THEN /\ sys_modules' = sys_modules @@ (HelpersModule :> HelpersId)
            /\ pc' = "M29"
            /\ UNCHANGED exc
       ELSE /\ exc' = ModuleNotFoundError
            /\ pc' = "L106"
            /\ UNCHANGED sys_modules
    /\ UNCHANGED <<fsvars, sys_path, nextId, call, lsm_model_files, model_file, module, logged, result, myvars, last>>

\* spec.loader.exec_module(module), for a student file that has no SECTION 3
ExecStudentModule ==
    /\ pc = "L90"
    /\ model_file # "my_model.py"
    /\ pc' = "L93"
    /\ UNCHANGED <<fsvars, procvars, call, lsmvars, myvars, last>>

\* my_model.py: the walk for .h5 files and the check that one was found
WalkModels ==
    /\ pc = "M29"
    /\ \E l \in Walk(miner_model_dir, ".h5") :
          /\ model_files' = l
          /\ IF l = <<>>
             THEN /\ exc' = FileNotFoundError(".h5", miner_model_dir)
                  /\ pc' = "L106"
             ELSE /\ pc' = "M46"
                  /\ UNCHANGED exc
    /\ UNCHANGED <<fsvars, procvars, call, lsm_model_files, model_file, module, logged, result,
                   model_path, model, csv_files, data_path, data, last>>

\* model_path = model_files[0]
SelectModel ==
    /\ pc = "M46"
    /\ model_path' = First(model_files)
    /\ pc' = "M50"
    /\ UNCHANGED <<fsvars, procvars, call, lsmvars, model_files, model, csv_files, data_path, data, last>>

\* model = load_model(model_path, compile=False)
LoadModel ==
    /\ pc = "M50"
    /\ IF model_path \in Corrupt
       THEN /\ exc' = LoadError(model_path)
            /\ pc' = "L106"
            /\ UNCHANGED model
       ELSE /\ model' = model_path
            /\ pc' = "M61"
            /\ UNCHANGED exc
    /\ UNCHANGED <<fsvars, procvars, call, lsm_model_files, model_file, module, logged, result,
                   model_files, model_path, csv_files, data_path, data, last>>

\* my_model.py: the walk for .csv files and the check that one was found
WalkCsv ==
    /\ pc = "M61"
    /\ \E l \in Walk(miner_model_dir, ".csv") :
          /\ csv_files' = l
          /\ IF l = <<>>
             THEN /\ exc' = FileNotFoundError(".csv", miner_model_dir)
                  /\ pc' = "L106"
             ELSE /\ pc' = "M78"
                  /\ UNCHANGED exc
    /\ UNCHANGED <<fsvars, procvars, call, lsm_model_files, model_file, module, logged, result,
                   model_files, model_path, model, data_path, data, last>>

\* data_path = csv_files[0]
SelectData ==
    /\ pc = "M78"
    /\ data_path' = First(csv_files)
    /\ pc' = "M81"
    /\ UNCHANGED <<fsvars, procvars, call, lsmvars, model_files, model_path, model, csv_files, data, last>>

\* df = pd.read_csv(data_path); data = prepare_dataframe(df); def predict(...)
LoadData ==
    /\ pc = "M81"
    /\ data' = data_path
    /\ module' = [module EXCEPT !.attrs = @ \cup {"predict"}]
    /\ pc' = "L93"
    /\ UNCHANGED <<fsvars, procvars, call, lsm_model_files, model_file, exc, logged, result,
                   model_files, model_path, model, csv_files, data_path, last>>

\* if not hasattr(module, 'predict'): log, return None
CheckPredict ==
    /\ pc = "L93"
    /\ IF ~HasAttr(module, "predict")
       THEN /\ logged' = LogError("does not have a predict() function", model_file, NoExc)
            /\ result' = ReturnNone
            /\ pc' = "done"
       ELSE /\ pc' = "L101"
            /\ UNCHANGED <<logged, result>>
    /\ UNCHANGED <<fsvars, procvars, call, lsm_model_files, model_file, module, exc, myvars, last>>

\* model = FunctionBasedModel(module.predict); log; return model
Wrap ==
    /\ pc = "L101"
    /\ result' = FunctionBasedModel(module)
    /\ logged' = LogSuccess(model_file)
    /\ pc' = "done"
    /\ UNCHANGED <<fsvars, procvars, call, lsm_model_files, model_file, module, exc, myvars, last>>

\* except Exception as e: log, return None
Except ==
    /\ pc = "L106"
    /\ logged' = LogError("Failed to load model", model_file, exc)
    /\ result' = ReturnNone
    /\ pc' = "done"
    /\ UNCHANGED <<fsvars, procvars, call, lsm_model_files, model_file, module, exc, myvars, last>>

\* READY, FAILED, or neither when an exception left the function
Outcome(r) ==
    IF r.kind = "adapter" THEN "READY" ELSE IF r.kind = "None" THEN "FAILED" ELSE "RAISED"

\* the caller takes the value returned
Return ==
    /\ pc = "done"
    /\ pc' = "idle"
    /\ call' = "none"
    /\ last' = IF call = "load"
               THEN [valid |-> TRUE, model_file |-> model_file, model_path |-> model_path,
                     data_path |-> data_path, outcome |-> Outcome(result), id |-> module.id]
               ELSE last
    /\ ResetLocals
    /\ UNCHANGED <<fsvars, procvars>>

-----------------------------------------------------------------------------
(* model_loader.py: list_available_models *)

ListAvailableModels ==
    /\ pc = "idle"
    /\ call' = "list"
    /\ pc' = "done"
    /\ IF student_models_kind = "absent"
       THEN result' = ReturnList(<<>>)
       ELSE IF student_models_kind = "file"
       THEN result' = Raised(NotADirectoryError(student_models_dir))
       ELSE \E p \in Perms(entries) : result' = ReturnList(SelectSeq(p, IsCandidate))
    /\ UNCHANGED <<fsvars, procvars, lsm_model_files, model_file, module, exc, logged, myvars, last>>

-----------------------------------------------------------------------------

Next ==
    \/ AddArtifact \/ RemoveArtifact \/ AddEntry \/ RemoveEntry \/ ReplaceStudentModels
    \/ Invoke \/ CheckDir \/ ListDir \/ CheckFound \/ SelectModelFile \/ PrepareModule
    \/ ExecMyModel \/ ExecStudentModule
    \/ WalkModels \/ SelectModel \/ LoadModel \/ WalkCsv \/ SelectData \/ LoadData
    \/ CheckPredict \/ Wrap \/ Except \/ Return
    \/ ListAvailableModels

Spec == Init /\ [][Next]_vars

TypeOK ==
    /\ student_models_kind \in {"absent", "dir", "file"}
    /\ entries \subseteq EntryUniverse
    /\ artifacts \subseteq ArtifactUniverse
    /\ student_models_kind # "dir" => entries = {}
    /\ nextId \in 1..(MaxLoads + 1)

-----------------------------------------------------------------------------
(* Vocabulary of the properties, stated on the tree and not on the code *)

Marker == Chars("LSTM_outside_example")

\* the path of the directory holding f contains the exclusion marker
UnderMarker(f) == Contains(Marker, PathChars(Dirname(f)))

\* the files of one kind in the tree, marked and not
OfKind(suffix)   == {f \in AllFiles : EndsWith(Chars(Basename(f)), Chars(suffix))}
Marked(suffix)   == {f \in OfKind(suffix) : UnderMarker(f)}
Unmarked(suffix) == {f \in OfKind(suffix) : ~UnderMarker(f)}

Reserved == {"__init__.py", "helpers.py"}

\* the implementation-module candidates in student_models/
Candidates == {e \in entries : EndsWith(Chars(e), Chars(".py")) /\ e \notin Reserved}

ImplNames == {QualName(ModuleName(e)) : e \in EntryUniverse \ Reserved}

LoadDone == call = "load" /\ pc = "done"

\* my_model.py was executed and its import of helpers succeeded
DiscoveryRan ==
    /\ LoadDone
    /\ model_file = "my_model.py"
    /\ module # NoModule
    /\ HelpersModule \in DOMAIN sys_modules

-----------------------------------------------------------------------------
(* C1 *)

\* C1: the .h5 and the .csv file my_model.py selects (and reads) are never
\* under a directory whose path contains 'LSTM_outside_example'; when the only
\* files of a kind are under such a path, the scan for that kind ends with
\* FileNotFoundError and nothing of that kind is selected.
C1_ExclusionRule ==
    /\ model_path # NoPath => model_path \in Unmarked(".h5")
    /\ data_path # NoPath => data_path \in Unmarked(".csv")
    /\ model # NoPath => ~UnderMarker(model)
    /\ data # NoPath => ~UnderMarker(data)
    /\ (DiscoveryRan /\ Marked(".h5") # {} /\ Unmarked(".h5") = {}) =>
          /\ model_path = NoPath /\ model = NoPath
          /\ logged.exc.type = "FileNotFoundError" /\ logged.exc.what = ".h5"
          /\ result = ReturnNone
    /\ (DiscoveryRan /\ model # NoPath /\ Marked(".csv") # {} /\ Unmarked(".csv") = {}) =>
          /\ data_path = NoPath /\ data = NoPath
          /\ logged.exc.type = "FileNotFoundError" /\ logged.exc.what = ".csv"
          /\ result = ReturnNone

\* a model outside the marked tree was chosen although a marked one exists,
\* and the only .csv files are marked, so the .csv selection failed
C1_Witness ==
    /\ DiscoveryRan
    /\ Marked(".h5") # {} /\ model \in Unmarked(".h5")
    /\ Marked(".csv") # {} /\ Unmarked(".csv") = {}
    /\ data_path = NoPath
    /\ logged.exc.type = "FileNotFoundError" /\ logged.exc.what = ".csv"

-----------------------------------------------------------------------------
(* C2 *)

\* C2: two runs of load_student_model on an unchanged tree select the same
\* implementation file, the same .h5 file and the same .csv file, whatever
\* order the OS enumerates the directories in.
C2_Deterministic ==
    (LoadDone /\ last.valid) =>
        /\ model_file = last.model_file
        /\ model_path = last.model_path
        /\ data_path = last.data_path

-----------------------------------------------------------------------------
(* C3 *)

\* C3: load_student_model ends by returning None or an adapter, never by an
\* exception that reaches the caller, and it returns an adapter only when the
\* module was executed without error and exposes predict.
C3_NeverEscapes ==
    LoadDone =>
        /\ result.kind \in {"None", "adapter"}
        /\ result.kind = "adapter" =>
              /\ exc = NoExc
              /\ module # NoModule /\ "predict" \in module.attrs
              /\ result.wraps = module.id

-----------------------------------------------------------------------------
(* C4 *)

\* C4: when the selected module was executed without error and has no
\* attribute predict, load_student_model logs the error and returns None, and
\* FunctionBasedModel is constructed only for a module that has predict.
C4_MissingEntryPoint ==
    /\ (LoadDone /\ module # NoModule /\ exc = NoExc /\ "predict" \notin module.attrs) =>
          /\ result = ReturnNone
          /\ logged = LogError("does not have a predict() function", model_file, NoExc)
    /\ (pc = "L101" \/ result.kind = "adapter") => "predict" \in module.attrs

C4_Witness ==
    /\ LoadDone
    /\ model_file = "b_model.py"
    /\ module # NoModule /\ exc = NoExc /\ "predict" \notin module.attrs
    /\ result = ReturnNone

-----------------------------------------------------------------------------
(* C5 *)

\* C5: when student_models/ is a directory without a '.py' entry other than
\* __init__.py and helpers.py, load_student_model never creates or executes a
\* module, reports that no student model was found and returns None, and
\* list_available_models returns the empty list.
C5_NoCandidates ==
    (student_models_kind = "dir" /\ Candidates = {}) =>
        /\ call = "load" =>
              /\ module = NoModule /\ model_file = None
              /\ pc \in {"L36", "L44", "L48", "done"}
              /\ pc = "done" =>
                    /\ result = ReturnNone
                    /\ logged = LogError("No student model found in student_models/ folder", None, NoExc)
        /\ (call = "list" /\ pc = "done") => result = ReturnList(<<>>)

\* the directory holds only the two reserved files and the call has returned
C5_Witness ==
    /\ LoadDone
    /\ student_models_kind = "dir"
    /\ entries = Reserved
    /\ result = ReturnNone
    /\ nextId = 1

-----------------------------------------------------------------------------
(* C6 *)

\* C6: when my_model.py runs and no .h5 file (respectively .csv file) exists
\* outside the marked directories, the call returns None and the error logged
\* by the except clause is the FileNotFoundError naming that kind and
\* miner_model_dir; when both kinds are missing it names .h5.
C6_MissingArtifact ==
    /\ (DiscoveryRan /\ Unmarked(".h5") = {}) =>
          /\ result = ReturnNone
          /\ logged = LogError("Failed to load model", "my_model.py",
                               [type |-> "FileNotFoundError", what |-> ".h5", path |-> miner_model_dir])
    /\ (DiscoveryRan /\ model # NoPath /\ Unmarked(".csv") = {}) =>
          /\ result = ReturnNone
          /\ logged = LogError("Failed to load model", "my_model.py",
                               [type |-> "FileNotFoundError", what |-> ".csv", path |-> miner_model_dir])

\* both kinds are missing and the .h5 failure is the one reported
C6_Witness ==
    /\ DiscoveryRan
    /\ Unmarked(".h5") = {} /\ Unmarked(".csv") = {}
    /\ logged.exc.what = ".h5"
    /\ result = ReturnNone

-----------------------------------------------------------------------------
(* C7 *)

\* the scenario: one candidate module, my_model.py, with its helpers; a
\* readable model and a dataset outside the marked directories
Scenario ==
    /\ student_models_kind = "dir"
    /\ Candidates = {"my_model.py"}
    /\ ("helpers.py" \in entries \/ HelpersModule \in DOMAIN sys_modules)
    /\ Unmarked(".h5") # {} /\ Unmarked(".h5") \cap Corrupt = {}
    /\ Unmarked(".csv") # {}

\* C7: in the scenario, whatever files lie under marked directories, the call
\* ends READY: it returns an adapter wrapping the predict of the module loaded
\* from my_model.py, having selected and read only a model and a dataset that
\* are outside the marked directories.
C7_SuccessScenario ==
    (LoadDone /\ Scenario) =>
        /\ result = FunctionBasedModel(module)
        /\ module.name = QualName(ModuleName("my_model.py"))
        /\ "predict" \in module.attrs
        /\ model_path \in Unmarked(".h5") /\ model = model_path
        /\ data_path \in Unmarked(".csv") /\ data = data_path
        /\ logged = LogSuccess("my_model.py")

\* READY with marked files of both kinds in the tree
C7_Witness ==
    /\ LoadDone /\ Scenario
    /\ Marked(".h5") # {} /\ Marked(".csv") # {}
    /\ result.kind = "adapter"

-----------------------------------------------------------------------------
(* C8 *)

\* C8: an invocation ends READY or FAILED and in no other way; a model or a
\* dataset is read only after the scan and the selection for its kind; the
\* check for predict comes after the module was executed; READY follows the
\* check; after a failure nothing is loaded and no adapter is constructed.
C8_PhaseOrder ==
    /\ LoadDone => Outcome(result) \in {"READY", "FAILED"}
    /\ model # NoPath => (model_files # <<>> /\ model_path = model)
    /\ data # NoPath => (csv_files # <<>> /\ data_path = data)
    /\ pc \in {"L93", "L101"} => module # NoModule
    /\ result.kind = "adapter" => (pc = "done" /\ "predict" \in module.attrs)
    /\ (call = "load" /\ result.kind = "None") => pc = "done"

-----------------------------------------------------------------------------
(* C9 *)

\* the outcomes of my_model.py's discovery on the current tree
DiscoveryOutcomes ==
    {IF l = <<>> \/ First(l) \in Corrupt THEN "FAILED"
     ELSE IF c = <<>> THEN "FAILED" ELSE "READY"
       : l \in Walk(miner_model_dir, ".h5"), c \in Walk(miner_model_dir, ".csv")}

\* the outcomes a first invocation in a fresh process has on the current tree
FreshOutcomes ==
    IF student_models_kind = "absent" THEN {"FAILED"}
    ELSE IF student_models_kind = "file" THEN {"RAISED"}
    ELSE IF Candidates = {} THEN {"FAILED"}
    ELSE UNION {IF f # "my_model.py" THEN {"FAILED"}
                ELSE IF "helpers.py" \notin entries THEN {"FAILED"}
                ELSE DiscoveryOutcomes
                  : f \in Candidates}

\* C9: the outcome of an invocation depends only on the directory contents at
\* the time of the invocation: it is an outcome that a first invocation in a
\* fresh process has on the same tree, whatever was invoked before.
C9_Stateless == LoadDone => Outcome(result) \in FreshOutcomes

-----------------------------------------------------------------------------
(* C10 *)

\* C10: the module of a load has the name and the package
\* 'miner_model.student_models', is an object that sys.modules does not hold
\* and that differs from the module of the previous load, and no step adds or
\* replaces the entry of an implementation module's name in sys.modules.
C10_Isolation ==
    /\ [](module # NoModule =>
            /\ module.package = StudentPackage
            /\ module.name = QualName(ModuleName(model_file))
            /\ \A n \in DOMAIN sys_modules : sys_modules[n] # module.id
            /\ module.id # last.id)
    /\ [][\A n \in ImplNames :
            /\ (n \in DOMAIN sys_modules') = (n \in DOMAIN sys_modules)
            /\ n \in DOMAIN sys_modules => sys_modules'[n] = sys_modules[n]]_vars

\* a second load has completed READY while another module is registered
\* under the name of my_model
C10_Witness ==
    /\ LoadDone
    /\ result.kind = "adapter"
    /\ last.id # 0
    /\ QualName(ModuleName("my_model.py")) \in DOMAIN sys_modules
    /\ sys_modules[QualName(ModuleName("my_model.py"))] = ForeignId

====
